---- MODULE Spec2Model ----
(***************************************************************************)
(* Location tracker: the location persistence contract.                    *)
(*                                                                         *)
(* The two implementations of IStorage (server/storage.ts), MemStorage and *)
(* DatabaseStorage, are modelled side by side.  Every storage call of the  *)
(* specification Spec is issued, with the same arguments and at the same   *)
(* instant, to one instance of each class, so that the two variants can be *)
(* compared over the same history of calls.                                *)
(*                                                                         *)
(* Numbers (latitude, longitude, accuracy) are fixed-point decimals: the   *)
(* integer n stands for n / Scale.  Instants are integers.                 *)
(***************************************************************************)
EXTENDS Integers, Sequences, FiniteSets, TLC

(* ---------------------------- bounds ---------------------------------- *)

\* creates issued to a store: the id counters stay within 1 .. MaxId + 1
MaxId == 3
\* the clock runs over 1 .. MaxTime
MaxTime == 2
\* calls of getCurrentLocation, and of watchPosition, that are made
MaxCalls == 2
\* events the platform's location service produces
MaxEvents == 3
\* ticks of the browser's clock
MaxTicks == 4
\* entries written to the local history
MaxSaves == 52

(* ---------------------------- values ---------------------------------- *)

\* one unit of a number is 1 / Scale (seven decimals)
Scale == 10000000
\* JavaScript null / SQL NULL: no number of the model equals it
Null == 0 - 2147483647
\* JavaScript undefined, as the result of a lookup
Undefined == [undefined |-> TRUE]
\* JavaScript null where an object or a string is expected
NullRef == [null |-> TRUE]
\* a rejected promise: the insert violated the primary key
Fault == [fault |-> "unique_violation"]
\* a rejected promise: the insert put null into a notNull column
NotNullFault == [fault |-> "not_null_violation"]
\* a rejected promise: the database cannot be reached
ConnectionFault == [fault |-> "connection"]
\* no exception
NoError == [fault |-> "none"]
\* the result of parseInt on a string without leading digits
NaN == 0 - 2147483646

\* columns of the table "locations"
Columns == {"id", "name", "latitude", "longitude", "accuracy", "timestamp"}

Max(S) == CHOOSE x \in S : \A y \in S : y <= x

RECURSIVE Pow(_, _)
Pow(b, e) == IF e = 0 THEN 1 ELSE b * Pow(b, e - 1)

Reverse(s) == [i \in 1..Len(s) |-> s[Len(s) + 1 - i]]

Range(s) == {s[i] : i \in 1..Len(s)}

(* ------------------- PostgreSQL real (float4) -------------------------- *)

\* Scale = 2^7 * 5^7
Five7 == 78125

\* the binade of a number a >= 4: 2^p <= a / Scale < 2^(p+1), p in 2..7
Binade(a) == Max({p \in 2..7 : Pow(2, p) * Scale <= a})

\* The float4 nearest to a > 0 (round to nearest, 24-bit significand), as
\* <<m, sh>>: its value is m / sh * Five7 units, 2^23 <= m < 2^24.
Float4Of(a) ==
  LET p  == Binade(a)
      sh == Pow(2, 16 - p)
      q  == a \div Five7
      t  == (a % Five7) * sh
      m  == q * sh + (t \div Five7) + (IF 2 * (t % Five7) > Five7 THEN 1 ELSE 0)
  IN  IF m = Pow(2, 24) THEN <<Pow(2, 23), sh \div 2>> ELSE <<m, sh>>

\* the multiple of step nearest to the value of the float4 f
NearestDecimal(f, step) ==
  LET m  == f[1]
      sh == f[2]
      rl == m % sh
      fl == (m \div sh) * Five7 + ((rl * Five7) \div sh)
      rr == (rl * Five7) % sh
      t  == fl \div step
      u  == fl % step
      up == IF step = 1
              THEN 2 * rr > sh \/ (2 * rr = sh /\ fl % 2 = 1)
              ELSE \/ 2 * u > step
                   \/ 2 * u = step /\ (rr > 0 \/ t % 2 = 1)
  IN  (t + (IF up THEN 1 ELSE 0)) * step

\* the output of float4 as text: the shortest decimal that reads back as f
Float4Out(f) ==
  LET Reads(k) == LET c == NearestDecimal(f, Pow(10, 7 - k))
                  IN  c >= 4 * Scale /\ Float4Of(c) = f
      k0 == CHOOSE k \in 0..7 : Reads(k) /\ \A j \in 0..(k - 1) : ~Reads(j)
  IN  NearestDecimal(f, Pow(10, 7 - k0))

\* A number written to a column of type real and read back: rounded to
\* float4 by the server, returned as text, parsed by the driver.
PgReal(n) ==
  IF n = 0 THEN 0
  ELSE IF n < 0 THEN 0 - Float4Out(Float4Of(0 - n))
  ELSE Float4Out(Float4Of(n))

(* --------------------------- create-requests --------------------------- *)

\* The objects handed to createLocation.  A key that is not in the domain
\* is an absent (undefined) property.
Home == [name |-> "Home", latitude |-> 129700000, longitude |-> 775900000]
Work == [name |-> "Work", latitude |-> 129300000, longitude |-> 776100000,
         accuracy |-> 150000000]
Precise == [name |-> "Precise", latitude |-> 129715987,
            longitude |-> 775945627, accuracy |-> 0]
NullAccuracy == Home @@ [accuracy |-> Null]

\* the values of type InsertLocation
Requests == {Home, Work, Precise, NullAccuracy}

\* Objects that carry the store-assigned fields: the type InsertLocation
\* leaves them out, an object can hold them at run time.  The id is none a
\* store assigns within the bounds, the timestamp is before the clock starts.
WithId == Home @@ [id |-> 99]
WithTimestamp == Work @@ [timestamp |-> 0]

RawRequests == Requests \cup {WithId, WithTimestamp}

\* x || null: a zero counts as absent
NullishCoalesce_or(o, k) ==
  IF k \in DOMAIN o /\ o[k] # Null /\ o[k] # 0 THEN o[k] ELSE Null

\* x ?? null, for the property k of the object o
NullishCoalesce(o, k) == IF k \in DOMAIN o /\ o[k] # Null THEN o[k] ELSE Null

(* ------------------------------ MemStorage ----------------------------- *)

\* A Map<number, Location> is the sequence of its entries in insertion order.
MapHas(m, k) == \E i \in 1..Len(m) : m[i].key = k

MapGet(m, k) ==
  IF MapHas(m, k) THEN m[CHOOSE i \in 1..Len(m) : m[i].key = k].value
  ELSE Undefined

\* a set that writes the value over the entry before the key
MapSet_previous(m, k, v) ==
  IF MapHas(m, k - 1)
    THEN [i \in 1..Len(m) |-> IF m[i].key = k - 1 THEN [key |-> k - 1, value |-> v] ELSE m[i]]
    ELSE Append(m, [key |-> k, value |-> v])

\* Map.prototype.set: an existing key keeps its position
MapSet(m, k, v) ==
  IF MapHas(m, k)
    THEN [i \in 1..Len(m) |-> IF m[i].key = k THEN [key |-> k, value |-> v] ELSE m[i]]
    ELSE Append(m, [key |-> k, value |-> v])

\* a delete that removes nothing
MapDelete_keep(m, k) == m

\* Map.prototype.delete: the map without the key
MapDelete(m, k) == SelectSeq(m, LAMBDA e : e.key # k)

\* Map.prototype.delete returns whether the key was present
MapDeleteResult(m, k) == MapHas(m, k)

\* a clear that removes nothing
MapClear_noop(m) == m

\* Map.prototype.clear
MapClear(m) == <<>>

\* Array.from(map.values())
MapValues(m) == [i \in 1..Len(m) |-> m[i].value]

\* the comparator of getAllLocations: negative when a goes before b
CompareLocations(a, b) == b.timestamp - a.timestamp

\* Array.prototype.sort is stable: x goes after the last element that does
\* not compare greater than it
SortInsert(s, x) ==
  LET before == {i \in 1..Len(s) : CompareLocations(s[i], x) <= 0}
      k == IF before = {} THEN 0 ELSE Max(before)
  IN  SubSeq(s, 1, k) \o <<x>> \o SubSeq(s, k + 1, Len(s))

RECURSIVE ArraySort(_)
ArraySort(s) ==
  IF s = <<>> THEN <<>>
  ELSE SortInsert(ArraySort(SubSeq(s, 1, Len(s) - 1)), s[Len(s)])

MemGetAllLocations(m) == ArraySort(MapValues(m))

MemGetLocation(m, id) == MapGet(m, id)

\* { ...insertLocation, id, timestamp: new Date(), accuracy: accuracy ?? null }
MemNewLocation(insertLocation, id, date) ==
  [k \in DOMAIN insertLocation \cup {"id", "timestamp", "accuracy"} |->
     CASE k = "id" -> id
       [] k = "timestamp" -> date
       [] k = "accuracy" -> NullishCoalesce(insertLocation, "accuracy")
       [] OTHER -> insertLocation[k]]

\* a counter that is read and not incremented
MemNextId_stuck(counter) == counter

\* this.currentLocationId++ leaves the counter at
MemNextId(counter) == counter + 1

(* ---------------------------- DatabaseStorage -------------------------- *)

\* { ...insertLocation, accuracy: insertLocation.accuracy ?? null }
DbValues(insertLocation) ==
  [k \in DOMAIN insertLocation \cup {"accuracy"} |->
     IF k = "accuracy" THEN NullishCoalesce(insertLocation, "accuracy")
     ELSE insertLocation[k]]

\* the numbers the requests carry
RequestNumbers ==
  UNION {{r[k] : k \in DOMAIN r \cap {"latitude", "longitude", "accuracy"}} :
           r \in Requests} \ {Null}

\* PgReal over the numbers of the requests, evaluated once
RealColumn == [n \in RequestNumbers |-> PgReal(n)]

\* a column without a supplied value takes its default: id serial
DbUsesSequence(values) == "id" \notin DOMAIN values

\* name, latitude and longitude are notNull and have no default
DbNotNullViolation(values) ==
  \E c \in {"name", "latitude", "longitude"} :
    c \notin DOMAIN values \/ (c # "name" /\ values[c] = Null)

\* The row that INSERT ... RETURNING writes and returns: each column takes
\* the supplied value, or else its default (id nextval, timestamp now(),
\* accuracy NULL); the real columns hold float4.
DbNewRow(values, seq, date) ==
  [c \in Columns |->
     CASE c = "id" -> IF "id" \in DOMAIN values THEN values.id ELSE seq
       [] c = "timestamp" ->
            IF "timestamp" \in DOMAIN values THEN values.timestamp ELSE date
       [] c = "accuracy" ->
            IF values.accuracy = Null THEN Null ELSE RealColumn[values.accuracy]
       [] c = "name" -> values.name
       [] OTHER -> RealColumn[values[c]]]

\* select().from(locations).where(eq(locations.id, id)): first row or undefined
DbGetLocation(table, id) ==
  IF \E r \in table : r.id = id THEN CHOOSE r \in table : r.id = id
  ELSE Undefined

\* a select without orderBy: the rows in any order
DbGetAllLocations_unordered(table) ==
  LET n == Cardinality(table)
  IN  {s \in [1..n -> table] : \A i, j \in 1..n : i # j => s[i] # s[j]}

\* select().from(locations).orderBy(locations.timestamp): the rows in some
\* order that ascends by timestamp; rows of equal timestamp come in any order
DbGetAllLocations(table) ==
  LET n == Cardinality(table)
  IN  {s \in [1..n -> table] :
         /\ \A i, j \in 1..n : i # j => s[i] # s[j]
         /\ \A i, j \in 1..n : i < j => s[i].timestamp <= s[j].timestamp}

\* delete(locations).where(eq(locations.id, id)): rowCount
DbRowCount(table, id) == Cardinality({r \in table : r.id = id})

\* a result that reports success whenever the statement ran
DbDeleteResult_any(rowCount) == rowCount >= 0

\* result.rowCount ? result.rowCount > 0 : false
DbDeleteResult(rowCount) == IF rowCount # 0 THEN rowCount > 0 ELSE FALSE

\* a delete without its where clause
DbDeleteRows_all(table, id) == {}

DbDeleteRows(table, id) == {r \in table : r.id # id}

(* ------------------------------- state --------------------------------- *)

VARIABLES
  now,                \* the clock: new Date() and the table's now()
  locations,          \* MemStorage.locations
  currentLocationId,  \* MemStorage.currentLocationId
  dbLocations,        \* the rows of the table "locations"
  dbSeq,              \* the next value of the sequence behind locations.id
  memRet,             \* the last call on the MemStorage and what it returned
  dbRet,              \* the last call on the DatabaseStorage and what it returned
                      \* (held: history, the number of records before a clear)
  res,                \* the last HTTP request and its response (calls, threw:
                      \* history, the storage calls made and what was thrown)
  dbUp,               \* whether the database answers
  memLive,            \* history: records MemStorage created and has not removed
  memIssued,          \* history: ids MemStorage.createLocation has returned
  memCreates,         \* history: number of MemStorage.createLocation calls
  dbIssued,           \* history: ids DatabaseStorage.createLocation has returned
  dbLive,             \* history: rows DatabaseStorage created and has not removed
  supported,          \* whether navigator.geolocation exists
  promises,           \* the promises of the getCurrentLocation calls, in call order
  platformReqs,       \* the platform's one-shot requests, with the callbacks made
  watches,            \* the watchPosition calls that returned, with their callbacks
  watchIDs,           \* the platform's list of active watch ids
  nextWatchId,        \* the id the platform gives to the next watch
  geoRet,             \* the last watchPosition or clearWatch call and its result
  events,             \* history: number of events the platform has produced
  clock,              \* the browser's time in ms
  permission,         \* the geolocation permission: "granted" or "prompt"
  timers,             \* per one-shot request, when its acquisition began
  calledAt,           \* history: when each getCurrentLocation call was made
  settledAt,          \* history: when each getCurrentLocation promise settled
  locationStatus,     \* the page's locationStatus
  currentLocation,    \* the page's currentLocation
  errorMessage,       \* the page's errorMessage
  awaiting,           \* the promises that handleGetCurrentLocation runs await
  saveMutation,       \* saveLocationMutation: its request and whether it is pending
  clearMutation,      \* clearLocationsMutation: whether it is pending
  query,              \* the ["/api/locations"] query: its data, whether it fetches
  localItem,          \* localStorage's value under STORAGE_KEY
  storageFault,       \* how localStorage fails: "none", "quota" or "denied"
  localSaves,         \* history: number of entries written to localStorage
  inflight,           \* the store operation under way and the steps it has left
  seen                \* what the last reader interleaved with it got

vars == <<now, locations, currentLocationId, dbLocations, dbSeq, memRet, dbRet,
          res, dbUp, memLive, memIssued, memCreates, dbIssued, dbLive,
          supported, promises, platformReqs, watches, watchIDs, nextWatchId,
          geoRet, events, clock, permission, timers, calledAt, settledAt,
          locationStatus, currentLocation, errorMessage, awaiting,
          saveMutation, clearMutation, query, localItem, storageFault,
          localSaves, inflight, seen>>

memVars == <<locations, currentLocationId, memRet, memLive, memIssued, memCreates>>

dbVars == <<dbLocations, dbSeq, dbRet, dbIssued, dbLive>>

geoVars == <<supported, promises, platformReqs, watches, watchIDs, nextWatchId,
             geoRet, events>>

timeVars == <<clock, permission, timers, calledAt, settledAt>>

pageVars == <<locationStatus, currentLocation, errorMessage, awaiting,
              saveMutation, clearMutation, query>>

localVars == <<localItem, storageFault, localSaves>>

atomVars == <<inflight, seen>>

clientVars == <<timeVars, pageVars, localVars, atomVars>>

storeVars == <<now, memVars, dbVars, res, dbUp>>

\* ids passed to getLocation and deleteLocation
IdArgs == 1..(MaxId + 1)

NoCall == [op |-> "none"]

NoRequest == [route |-> "none"]

StoreInit ==
  /\ now = 1
  /\ locations = <<>>
  /\ currentLocationId = 1
  /\ dbLocations = {}
  /\ dbSeq = 1
  /\ memRet = NoCall
  /\ dbRet = NoCall
  /\ res = NoRequest
  /\ dbUp = TRUE
  /\ memLive = {}
  /\ memIssued = {}
  /\ memCreates = 0
  /\ dbIssued = {}
  /\ dbLive = {}

\* no geolocation call has been made
GeoIdle ==
  /\ promises = <<>>
  /\ platformReqs = <<>>
  /\ watches = <<>>
  /\ watchIDs = {}
  /\ nextWatchId = 1
  /\ geoRet = NoCall
  /\ events = 0

\* the page has just mounted in a browser whose clock starts at 0, and no
\* store operation is under way
PageIdle ==
  /\ clock = 0
  /\ timers = <<>>
  /\ calledAt = <<>>
  /\ settledAt = <<>>
  /\ locationStatus = "idle"
  /\ currentLocation = NullRef
  /\ errorMessage = ""
  /\ awaiting = {}
  /\ saveMutation = [isPending |-> FALSE]
  /\ clearMutation = [isPending |-> FALSE]
  /\ query = [data |-> <<>>, isFetching |-> TRUE]
  /\ localSaves = 0
  /\ inflight = NoCall
  /\ seen = NoCall

\* and localStorage is empty and works
ClientIdle ==
  /\ PageIdle
  /\ localItem = NullRef
  /\ storageFault = "none"

Init ==
  /\ StoreInit
  /\ GeoIdle
  /\ ClientIdle
  /\ permission = "granted"
  /\ supported = TRUE

\* time passes between two calls
Tick ==
  /\ now < MaxTime
  /\ now' = now + 1
  /\ UNCHANGED <<memVars, dbVars, res, dbUp, geoVars, clientVars>>

MemCreateLocation(insertLocation) ==
  LET id == currentLocationId
      location == MemNewLocation(insertLocation, id, now)
  IN  /\ currentLocationId' = MemNextId(currentLocationId)
      /\ locations' = MapSet(locations, id, location)
      /\ memRet' = [op |-> "create", arg |-> insertLocation, val |-> location]
      /\ memLive' = memLive \cup {location}
      /\ memIssued' = memIssued \cup {location.id}
      /\ memCreates' = memCreates + 1

DbCreateLocation(insertLocation) ==
  LET values == DbValues(insertLocation)
      row == DbNewRow(values, dbSeq, now)
  IN  /\ dbSeq' = IF DbUsesSequence(values) THEN dbSeq + 1 ELSE dbSeq
      /\ IF DbNotNullViolation(values)
           THEN /\ dbLocations' = dbLocations
                /\ dbRet' = [op |-> "create", arg |-> insertLocation,
                             val |-> NotNullFault]
                /\ dbIssued' = dbIssued
                /\ dbLive' = dbLive
           ELSE IF \E r \in dbLocations : r.id = row.id
           THEN /\ dbLocations' = dbLocations
                /\ dbRet' = [op |-> "create", arg |-> insertLocation, val |-> Fault]
                /\ dbIssued' = dbIssued
                /\ dbLive' = dbLive
           ELSE /\ dbLocations' = dbLocations \cup {row}
                /\ dbRet' = [op |-> "create", arg |-> insertLocation, val |-> row]
                /\ dbIssued' = dbIssued \cup {row.id}
                /\ dbLive' = dbLive \cup {row}

CreateLocation(insertLocation) ==
  /\ currentLocationId <= MaxId
  /\ dbSeq <= MaxId
  /\ MemCreateLocation(insertLocation)
  /\ DbCreateLocation(insertLocation)
  /\ UNCHANGED <<now, res, dbUp, geoVars, clientVars>>

MemDeleteLocation(id) ==
  /\ memRet' = [op |-> "delete", arg |-> id, val |-> MapDeleteResult(locations, id)]
  /\ locations' = MapDelete(locations, id)
  /\ memLive' = {l \in memLive : l.id # id}
  /\ UNCHANGED <<currentLocationId, memIssued, memCreates>>

DbDeleteLocation(id) ==
  /\ dbRet' = [op |-> "delete", arg |-> id,
               val |-> DbDeleteResult(DbRowCount(dbLocations, id))]
  /\ dbLocations' = DbDeleteRows(dbLocations, id)
  /\ dbLive' = {r \in dbLive : r.id # id}
  /\ UNCHANGED <<dbSeq, dbIssued>>

DeleteLocation(id) ==
  /\ MemDeleteLocation(id)
  /\ DbDeleteLocation(id)
  /\ UNCHANGED <<now, res, dbUp, geoVars, clientVars>>

MemClearAllLocations ==
  /\ locations' = MapClear(locations)
  /\ memRet' = [op |-> "clear", val |-> TRUE, held |-> Len(locations)]
  /\ memLive' = {}
  /\ UNCHANGED <<currentLocationId, memIssued, memCreates>>

DbClearAllLocations ==
  /\ dbLocations' = {}
  /\ dbRet' = [op |-> "clear", val |-> TRUE, held |-> Cardinality(dbLocations)]
  /\ dbLive' = {}
  /\ UNCHANGED <<dbSeq, dbIssued>>

ClearAllLocations ==
  /\ MemClearAllLocations
  /\ DbClearAllLocations
  /\ UNCHANGED <<now, res, dbUp, geoVars, clientVars>>

GetLocation(id) ==
  /\ memRet' = [op |-> "get", arg |-> id, val |-> MemGetLocation(locations, id)]
  /\ dbRet' = [op |-> "get", arg |-> id, val |-> DbGetLocation(dbLocations, id)]
  /\ UNCHANGED <<now, locations, currentLocationId, dbLocations, dbSeq, res,
                 dbUp, memLive, memIssued, memCreates, dbIssued, dbLive, geoVars, clientVars>>

GetAllLocations ==
  /\ memRet' = [op |-> "getAll", val |-> MemGetAllLocations(locations)]
  /\ \E rows \in DbGetAllLocations(dbLocations) :
       dbRet' = [op |-> "getAll", val |-> rows]
  /\ UNCHANGED <<now, locations, currentLocationId, dbLocations, dbSeq, res,
                 dbUp, memLive, memIssued, memCreates, dbIssued, dbLive, geoVars, clientVars>>

\* The storage contract: the same calls, with values of the declared types,
\* on one instance of each variant.
Next ==
  \/ Tick
  \/ \E insertLocation \in Requests : CreateLocation(insertLocation)
  \/ \E id \in IdArgs : DeleteLocation(id)
  \/ ClearAllLocations
  \/ \E id \in IdArgs : GetLocation(id)
  \/ GetAllLocations

Spec == Init /\ [][Next]_vars

(* ------------------------------- routes -------------------------------- *)

\* request bodies that the schema refuses: no name; a null latitude
NoName == [latitude |-> 129700000, longitude |-> 775900000]
NullLatitude == [name |-> "Home", latitude |-> Null, longitude |-> 775900000]

Bodies == {Home, WithId, WithTimestamp, NoName, NullLatitude}

\* the keys of insertLocationSchema: the columns without id and timestamp
InsertKeys == Columns \ {"id", "timestamp"}

\* issues that name no field
ZodIssues_pathless(body) ==
  IF \/ "name" \notin DOMAIN body
     \/ \E k \in {"latitude", "longitude"} : k \notin DOMAIN body \/ body[k] = Null
    THEN {"body"} ELSE {}

\* error.errors: the paths of the issues insertLocationSchema.parse finds,
\* one for each notNull column that is missing or null
ZodIssues(body) ==
  {k \in {"name"} : k \notin DOMAIN body}
    \cup {k \in {"latitude", "longitude"} : k \notin DOMAIN body \/ body[k] = Null}

\* insertLocationSchema.parse throws a ZodError: a column that is notNull
\* is missing or null
ZodError(body) ==
  \/ "name" \notin DOMAIN body
  \/ \E k \in {"latitude", "longitude"} : k \notin DOMAIN body \/ body[k] = Null

\* insertLocationSchema.parse returns the known keys; others are stripped
InsertLocationSchemaParse(body) ==
  [k \in DOMAIN body \cap InsertKeys |-> body[k]]

IsFault(v) == "fault" \in DOMAIN v

\* a catch block that sends the error along
PostCatch_leak(error) ==
  IF "issues" \in DOMAIN error
    THEN [status |-> 400,
          json |-> [message |-> "Invalid location data", errors |-> error.issues]]
    ELSE [status |-> 500,
          json |-> [message |-> "Failed to save location", error |-> error]]

\* the catch block of POST /api/locations: error is a ZodError (issues) or
\* what the store threw
PostCatch(error) ==
  IF "issues" \in DOMAIN error
    THEN [status |-> 400,
          json |-> [message |-> "Invalid location data", errors |-> error.issues]]
    ELSE [status |-> 500, json |-> [message |-> "Failed to save location"]]

\* an HTTP exchange: the request, the response, and as history the number of
\* storage calls made and the exception caught
Exchange(route, req, response, calls, threw) ==
  [route |-> route, req |-> req, status |-> response.status,
   json |-> response.json, calls |-> calls, threw |-> threw]

\* app.post("/api/locations"): storage is the DatabaseStorage
PostLocations(body) ==
  /\ dbSeq <= MaxId
  /\ IF ZodError(body)
       THEN /\ res' = Exchange("POST /api/locations", body,
                               PostCatch([issues |-> ZodIssues(body)]), 0, NoError)
            /\ UNCHANGED dbVars
       ELSE IF ~dbUp
       THEN /\ res' = Exchange("POST /api/locations", body,
                               PostCatch(ConnectionFault), 1, ConnectionFault)
            /\ UNCHANGED dbVars
       ELSE /\ DbCreateLocation(InsertLocationSchemaParse(body))
            /\ res' = IF IsFault(dbRet'.val)
                        THEN Exchange("POST /api/locations", body,
                                      PostCatch(dbRet'.val), 1, dbRet'.val)
                        ELSE Exchange("POST /api/locations", body,
                                      [status |-> 201, json |-> dbRet'.val],
                                      1, NoError)
  /\ UNCHANGED <<now, memVars, dbUp, geoVars, clientVars>>

\* createLocation called with an object that holds id or timestamp
CreateLocationRaw(insertLocation) == CreateLocation(insertLocation)

\* The stores and the route under objects that hold id or timestamp.
NextRaw ==
  \/ Tick
  \/ ClearAllLocations
  \/ \E insertLocation \in RawRequests \ Requests : CreateLocationRaw(insertLocation)
  \/ \E body \in Bodies : PostLocations(body)

SpecRaw == Init /\ [][NextRaw]_vars

\* the catch block of GET /api/locations
GetCatch(error) ==
  [status |-> 500, json |-> [message |-> "Failed to fetch locations"]]

\* a GET /api/locations that reads from a MemStorage of its own
GetLocationsRoute_mem ==
  /\ res' = Exchange("GET /api/locations", <<>>,
                     [status |-> 200, json |-> MemGetAllLocations(locations)],
                     1, NoError)
  /\ UNCHANGED <<now, memVars, dbVars, dbUp, geoVars, clientVars>>

\* app.get("/api/locations")
GetLocationsRoute ==
  /\ IF ~dbUp
       THEN /\ res' = Exchange("GET /api/locations", <<>>,
                               GetCatch(ConnectionFault), 1, ConnectionFault)
            /\ UNCHANGED dbVars
       ELSE /\ \E rows \in DbGetAllLocations(dbLocations) :
                 dbRet' = [op |-> "getAll", val |-> rows]
            /\ res' = Exchange("GET /api/locations", <<>>,
                               [status |-> 200, json |-> dbRet'.val], 1, NoError)
            /\ UNCHANGED <<dbLocations, dbSeq, dbIssued, dbLive>>
  /\ UNCHANGED <<now, memVars, dbUp, geoVars, clientVars>>

\* the characters of the :id path segments
Digits == {"0", "1", "2", "3", "4", "5", "6", "7", "8", "9"}

DigitValue(c) ==
  CASE c = "0" -> 0 [] c = "1" -> 1 [] c = "2" -> 2 [] c = "3" -> 3
    [] c = "4" -> 4 [] c = "5" -> 5 [] c = "6" -> 6 [] c = "7" -> 7
    [] c = "8" -> 8 [] c = "9" -> 9

RECURSIVE DecimalValue(_)
DecimalValue(ds) ==
  IF ds = <<>> THEN 0
  ELSE 10 * DecimalValue(SubSeq(ds, 1, Len(ds) - 1)) + DigitValue(ds[Len(ds)])

\* parseInt(string): an optional sign and the longest run of decimal digits
\* that follows it; what comes after the digits is ignored; NaN without digits
ParseInt(str) ==
  LET signed == str # <<>> /\ str[1] \in {"-", "+"}
      rest == IF signed THEN Tail(str) ELSE str
      n == Max({k \in 0..Len(rest) : \A i \in 1..k : rest[i] \in Digits})
      value == DecimalValue(SubSeq(rest, 1, n))
  IN  IF n = 0 THEN NaN
      ELSE IF signed /\ str[1] = "-" THEN 0 - value ELSE value

\* the :id path segments of the requests
Segments ==
  {<<"1">>, <<"2">>, <<"4">>, <<"-", "1">>, <<"a", "b", "c">>, <<"1", "a">>,
   <<"2", ".", "5">>}

\* the catch block of DELETE /api/locations/:id
DeleteCatch(error) ==
  [status |-> 500, json |-> [message |-> "Failed to delete location"]]

\* app.delete("/api/locations/:id")
DeleteLocationRoute(segment) ==
  LET id == ParseInt(segment)
  IN  /\ IF id = NaN
           THEN /\ res' = Exchange("DELETE /api/locations/:id", segment,
                                   [status |-> 400,
                                    json |-> [message |-> "Invalid location ID"]],
                                   0, NoError)
                /\ UNCHANGED dbVars
           ELSE IF ~dbUp
           THEN /\ res' = Exchange("DELETE /api/locations/:id", segment,
                                   DeleteCatch(ConnectionFault), 1, ConnectionFault)
                /\ UNCHANGED dbVars
           ELSE /\ DbDeleteLocation(id)
                /\ res' = Exchange("DELETE /api/locations/:id", segment,
                                   IF dbRet'.val
                                     THEN [status |-> 200,
                                           json |-> [message |-> "Location deleted successfully"]]
                                     ELSE [status |-> 404,
                                           json |-> [message |-> "Location not found"]],
                                   1, NoError)
      /\ UNCHANGED <<now, memVars, dbUp, geoVars, clientVars>>

\* the catch block of DELETE /api/locations
ClearCatch(error) ==
  [status |-> 500, json |-> [message |-> "Failed to clear locations"]]

\* app.delete("/api/locations")
ClearLocationsRoute ==
  /\ IF ~dbUp
       THEN /\ res' = Exchange("DELETE /api/locations", <<>>,
                               ClearCatch(ConnectionFault), 1, ConnectionFault)
            /\ UNCHANGED dbVars
       ELSE /\ DbClearAllLocations
            /\ res' = Exchange("DELETE /api/locations", <<>>,
                               [status |-> 200,
                                json |-> [message |-> "All locations cleared successfully"]],
                               1, NoError)
  /\ UNCHANGED <<now, memVars, dbUp, geoVars, clientVars>>

\* the connection to the database is lost or comes back
DbOutage ==
  /\ dbUp' = ~dbUp
  /\ UNCHANGED <<now, memVars, dbVars, res, geoVars, clientVars>>

\* The request layer over its store.
NextRoutes ==
  \/ Tick
  \/ DbOutage
  \/ GetLocationsRoute
  \/ \E body \in Bodies : PostLocations(body)
  \/ \E segment \in Segments : DeleteLocationRoute(segment)
  \/ ClearLocationsRoute

SpecRoutes == Init /\ [][NextRoutes]_vars

(* --------------------------- position source --------------------------- *)

\* GeolocationPositionError.PERMISSION_DENIED, POSITION_UNAVAILABLE, TIMEOUT
PERMISSION_DENIED == 1
POSITION_UNAVAILABLE == 2
TIMEOUT == 3

\* a code that is none of the three
UnknownCode == 4

ErrorCodes == {PERMISSION_DENIED, POSITION_UNAVAILABLE, TIMEOUT, UnknownCode}

\* two fixes the platform may report
Fix1 == [coords |-> [latitude |-> 129715987, longitude |-> 775945627,
                     accuracy |-> 150000000], timestamp |-> 1]
Fix2 == [coords |-> [latitude |-> 285000000, longitude |-> 770000000,
                     accuracy |-> 120000000], timestamp |-> 2]

\* what the platform hands to a success or an error callback
PositionEvent(position) == [kind |-> "position", position |-> position]
ErrorEvent(code) == [kind |-> "error", code |-> code]

\* what the platform reports to a watch
WatchEvents == {PositionEvent(Fix2), ErrorEvent(POSITION_UNAVAILABLE)}

UnsupportedMessage == "Geolocation is not supported by this browser"

\* reading a property of navigator.geolocation when it is undefined
TypeError == "TypeError: Cannot read properties of undefined"

\* !navigator.geolocation
GeolocationMissing_never(hasGeolocation) == FALSE

GeolocationMissing(hasGeolocation) == ~hasGeolocation

\* the switch over error.code, without its break statements
ErrorMessage_fallthrough(code) ==
  IF code \in {PERMISSION_DENIED, POSITION_UNAVAILABLE, TIMEOUT}
  THEN "Location request timed out"
  ELSE "Unknown location error"

\* the switch over error.code
ErrorMessage(code) ==
  CASE code = PERMISSION_DENIED -> "Location access denied by user"
    [] code = POSITION_UNAVAILABLE -> "Location information unavailable"
    [] code = TIMEOUT -> "Location request timed out"
    [] OTHER -> "Unknown location error"

\* a promise nobody has settled; cause is the error code behind a rejection,
\* 0 when no platform error is behind it
Pending == [state |-> "pending", value |-> "", cause |-> 0]
Fulfilled(position) == [state |-> "fulfilled", value |-> position, cause |-> 0]
Rejected(message, code) == [state |-> "rejected", value |-> message, cause |-> code]

\* resolve or reject that replaces an outcome already there
Settle_overwrite(promise, outcome) == outcome

\* resolve(position) and reject(error): only a pending promise changes
Settle(promise, outcome) ==
  IF promise.state = "pending" THEN outcome ELSE promise

\* the call of navigator.geolocation.getCurrentPosition: the requests the
\* platform receives for one getCurrentLocation call
IssueRequest(call) == <<[call |-> call, log |-> <<>>]>>

\* the success callback handed to getCurrentPosition
OnPosition(promise, position) == Settle(promise, Fulfilled(position))

\* the error callback handed to getCurrentPosition
OnPositionError(promise, code) ==
  Settle(promise, Rejected(ErrorMessage(code), code))

\* the success callback handed to navigator.geolocation.watchPosition, called
\* twice for one update
WatchSuccess_twice(watch, position) ==
  [watch EXCEPT !.successes = @ \o <<position, position>>]

\* the success callback handed to navigator.geolocation.watchPosition
WatchSuccess(watch, position) ==
  [watch EXCEPT !.successes = Append(@, position)]

\* the error callback handed to navigator.geolocation.watchPosition
WatchError(watch, code) ==
  IF watch.onError THEN [watch EXCEPT !.errors = Append(@, code)] ELSE watch

\* the wrapper callback an event of the platform runs
WatchCallback(watch, event) ==
  IF event.kind = "position"
  THEN WatchSuccess(watch, event.position)
  ELSE WatchError(watch, event.code)

\* the body of getCurrentLocation(): a new promise whose executor runs at once
GetCurrentLocationCall ==
  IF GeolocationMissing(supported)
  THEN /\ promises' = Append(promises, Settle(Pending, Rejected(UnsupportedMessage, 0)))
       /\ UNCHANGED platformReqs
  ELSE IF ~supported
  THEN \* the executor throws, which rejects the promise
       /\ promises' = Append(promises, Settle(Pending, Rejected(TypeError, 0)))
       /\ UNCHANGED platformReqs
  ELSE /\ promises' = Append(promises, Pending)
       /\ platformReqs' = platformReqs \o IssueRequest(Len(promises) + 1)

\* getCurrentLocation(), called on its own
GetCurrentLocation ==
  /\ Len(promises) < MaxCalls
  /\ GetCurrentLocationCall
  /\ UNCHANGED <<clientVars, storeVars, supported, watches, watchIDs,
                 nextWatchId, geoRet, events>>

\* the platform calls the success callback of a one-shot request
PlatformSuccess(r, position) ==
  /\ r \in DOMAIN platformReqs
  /\ events < MaxEvents
  /\ events' = events + 1
  /\ platformReqs' = [platformReqs EXCEPT ![r].log = Append(@, PositionEvent(position))]
  /\ promises' = [promises EXCEPT ![platformReqs[r].call] = OnPosition(@, position)]
  /\ UNCHANGED <<clientVars, storeVars, supported, watches, watchIDs,
                 nextWatchId, geoRet>>

\* the platform calls the error callback of a one-shot request
PlatformError(r, code) ==
  /\ r \in DOMAIN platformReqs
  /\ events < MaxEvents
  /\ events' = events + 1
  /\ platformReqs' = [platformReqs EXCEPT ![r].log = Append(@, ErrorEvent(code))]
  /\ promises' = [promises EXCEPT ![platformReqs[r].call] = OnPositionError(@, code)]
  /\ UNCHANGED <<clientVars, storeVars, supported, watches, watchIDs,
                 nextWatchId, geoRet>>

\* a watch the platform has just registered under id
NewWatch(id, hasOnError) ==
  [id |-> id, onError |-> hasOnError, queued |-> <<>>, sent |-> <<>>,
   successes |-> <<>>, errors |-> <<>>, cleared |-> FALSE, late |-> 0]

\* watchPosition(onSuccess, onError?)
WatchPosition(hasOnError) ==
  /\ Len(watches) < MaxCalls
  /\ IF GeolocationMissing(supported)
     THEN /\ geoRet' = [op |-> "watchPosition", val |-> 0, thrown |-> UnsupportedMessage]
          /\ UNCHANGED <<watches, watchIDs, nextWatchId>>
     ELSE IF ~supported
     THEN /\ geoRet' = [op |-> "watchPosition", val |-> 0, thrown |-> TypeError]
          /\ UNCHANGED <<watches, watchIDs, nextWatchId>>
     ELSE /\ watches' = Append(watches, NewWatch(nextWatchId, hasOnError))
          /\ watchIDs' = watchIDs \cup {nextWatchId}
          /\ nextWatchId' = nextWatchId + 1
          /\ geoRet' = [op |-> "watchPosition", val |-> nextWatchId, thrown |-> "none"]
  /\ UNCHANGED <<clientVars, storeVars, supported, promises, platformReqs,
                 events>>

\* the platform has a fix or an error for an active watch and queues the
\* task that will call back
PlatformWatchEvent(w, event) ==
  /\ w \in DOMAIN watches
  /\ watches[w].id \in watchIDs
  /\ events < MaxEvents
  /\ events' = events + 1
  /\ watches' = [watches EXCEPT ![w].queued = Append(@, event)]
  /\ UNCHANGED <<clientVars, storeVars, supported, promises, platformReqs,
                 watchIDs, nextWatchId, geoRet>>

\* the callbacks of the caller that have run for a watch
Invocations(watch) == Len(watch.successes) + Len(watch.errors)

\* a queued task runs: the platform calls the wrapper's callback
PlatformRunTask(w) ==
  /\ w \in DOMAIN watches
  /\ watches[w].queued # <<>>
  /\ LET event == Head(watches[w].queued)
         called == WatchCallback(watches[w], event)
     IN watches' = [watches EXCEPT ![w] =
          [called EXCEPT !.queued = Tail(@),
                         !.sent = Append(@, event),
                         !.late = IF called.cleared
                                  THEN @ + Invocations(called) - Invocations(watches[w])
                                  ELSE @]]
  /\ UNCHANGED <<clientVars, storeVars, supported, promises, platformReqs,
                 watchIDs, nextWatchId, geoRet, events>>

\* navigator.geolocation.clearWatch(id): an active id leaves the list of
\* watches, and a task already queued for it is dropped or still runs, as the
\* platform chooses; any other id changes nothing
PlatformClearWatch(ws, ids, id, drop) ==
  [w \in DOMAIN ws |->
     IF ws[w].id = id /\ id \in ids
     THEN [ws[w] EXCEPT !.cleared = TRUE, !.queued = IF drop THEN <<>> ELSE @]
     ELSE ws[w]]

\* clearWatch(watchId)
ClearWatch(watchId) ==
  /\ IF ~supported
     THEN /\ geoRet' = [op |-> "clearWatch", thrown |-> TypeError]
          /\ UNCHANGED <<watches, watchIDs>>
     ELSE /\ \E drop \in BOOLEAN : watches' = PlatformClearWatch(watches, watchIDs, watchId, drop)
          /\ watchIDs' = watchIDs \ {watchId}
          /\ geoRet' = [op |-> "clearWatch", thrown |-> "none"]
  /\ UNCHANGED <<clientVars, storeVars, supported, promises, platformReqs,
                 nextWatchId, events>>

\* the handles a caller may pass: those returned and one never returned
Handles == 1..(MaxCalls + 1)

InitGeo ==
  /\ StoreInit
  /\ GeoIdle
  /\ ClientIdle
  /\ permission = "granted"
  /\ supported \in BOOLEAN

\* One-shot requests over the platform's location service.
NextOnce ==
  \/ GetCurrentLocation
  \/ \E r \in 1..MaxCalls : PlatformSuccess(r, Fix1)
  \/ \E r \in 1..MaxCalls, code \in ErrorCodes : PlatformError(r, code)

SpecOnce == InitGeo /\ [][NextOnce]_vars

\* The entry points of the wrapper while the platform stays silent.
NextCalls ==
  \/ GetCurrentLocation
  \/ \E hasOnError \in BOOLEAN : WatchPosition(hasOnError)
  \/ \E watchId \in Handles : ClearWatch(watchId)

SpecCalls == InitGeo /\ [][NextCalls]_vars

\* Watches over the platform's location service.
NextWatch ==
  \/ \E hasOnError \in BOOLEAN : WatchPosition(hasOnError)
  \/ \E w \in 1..MaxCalls, event \in WatchEvents : PlatformWatchEvent(w, event)
  \/ \E w \in 1..MaxCalls : PlatformRunTask(w)
  \/ \E watchId \in Handles : ClearWatch(watchId)

SpecWatch == InitGeo /\ [][NextWatch]_vars

(* ------------------------------ timeout -------------------------------- *)

\* the options handed to the platform with every request
GEOLOCATION_OPTIONS ==
  [enableHighAccuracy |-> TRUE, timeout |-> 10000, maximumAge |-> 60000]

\* ms in one tick of the browser's clock
TickMs == 5000

\* the platform is not acquiring a position for the request yet
NotStarted == 0 - 1

\* getCurrentLocation() against a platform that starts to acquire a position
\* once the user has allowed it; the time spent on the permission prompt is
\* not part of the timeout
TimedGetCurrentLocation ==
  /\ Len(promises) < MaxCalls
  /\ GetCurrentLocationCall
  /\ calledAt' = Append(calledAt, clock)
  /\ settledAt' = Append(settledAt, IF supported THEN NotStarted ELSE clock)
  /\ timers' = IF supported
               THEN Append(timers, IF permission = "granted" THEN clock ELSE NotStarted)
               ELSE timers
  /\ UNCHANGED <<storeVars, pageVars, localVars, atomVars, clock, permission,
                 supported, watches, watchIDs, nextWatchId, geoRet, events>>

\* the user answers the permission prompt: the waiting requests start
UserGrantsPermission ==
  /\ permission = "prompt"
  /\ permission' = "granted"
  /\ timers' = [r \in DOMAIN timers |->
                  IF timers[r] = NotStarted THEN clock ELSE timers[r]]
  /\ UNCHANGED <<storeVars, geoVars, pageVars, localVars, atomVars, clock,
                 calledAt, settledAt>>

\* the platform's timer of a request has run out and no callback was made
TimerDue(r) ==
  /\ timers[r] # NotStarted
  /\ platformReqs[r].log = <<>>
  /\ clock >= timers[r] + GEOLOCATION_OPTIONS.timeout

\* the platform never has a fix: when the timer of a request runs out it
\* calls the error callback with TIMEOUT
PlatformTimeout(r) ==
  /\ r \in DOMAIN platformReqs
  /\ TimerDue(r)
  /\ platformReqs' = [platformReqs EXCEPT ![r].log = Append(@, ErrorEvent(TIMEOUT))]
  /\ promises' = [promises EXCEPT ![platformReqs[r].call] = OnPositionError(@, TIMEOUT)]
  /\ settledAt' = [settledAt EXCEPT ![platformReqs[r].call] = clock]
  /\ UNCHANGED <<storeVars, pageVars, localVars, atomVars, clock, permission,
                 timers, calledAt, supported, watches, watchIDs, nextWatchId,
                 geoRet, events>>

\* time passes, but not past a timer that is due
AdvanceClock ==
  /\ clock < MaxTicks * TickMs
  /\ \A r \in DOMAIN platformReqs : ~TimerDue(r)
  /\ clock' = clock + TickMs
  /\ UNCHANGED <<storeVars, geoVars, pageVars, localVars, atomVars, permission,
                 timers, calledAt, settledAt>>

InitTimeout ==
  /\ StoreInit
  /\ GeoIdle
  /\ ClientIdle
  /\ permission \in {"granted", "prompt"}
  /\ supported = TRUE

\* One-shot requests against a source that never reports a fix.
NextTimeout ==
  \/ TimedGetCurrentLocation
  \/ UserGrantsPermission
  \/ \E r \in 1..MaxCalls : PlatformTimeout(r)
  \/ AdvanceClock

SpecTimeout == InitTimeout /\ [][NextTimeout]_vars

(* ---------------------------- localStorage ----------------------------- *)

\* values localStorage may hold under STORAGE_KEY: the JSON text of an array,
\* the JSON text of something that is not an array, text that is not JSON,
\* and the empty string
StoredArray(items) == [text |-> "array", items |-> items]
StoredObject == [text |-> "object"]
StoredGarbage == [text |-> "garbage"]
StoredEmpty == [text |-> "empty"]

\* JSON.stringify of an array of stored locations
JSONStringify(items) == StoredArray(items)

\* JSON.parse throws a SyntaxError
JSONParseThrows(stored) == stored.text = "garbage"

\* JSON.parse of the JSON text of an array: its elements
JSONParse(stored) == stored.items

\* Array.isArray of what JSON.parse gives for the text
IsArray(stored) == stored.text = "array"

\* localStorage.getItem throws: storage is denied to the page
GetItemThrows(fault) == fault = "denied"

\* localStorage.setItem throws: storage is denied or the quota is exceeded
SetItemThrows(fault) == fault \in {"denied", "quota"}

\* getLocationsFromLocalStorage(): the array it returns, and the item as it
\* leaves it (clearLocationsFromLocalStorage removes what is not an array)
GetLocationsFromLocalStorage(item, fault) ==
  IF GetItemThrows(fault) THEN [locations |-> <<>>, item |-> item]
  ELSE IF item = NullRef \/ item = StoredEmpty THEN [locations |-> <<>>, item |-> item]
  ELSE IF JSONParseThrows(item) THEN [locations |-> <<>>, item |-> item]
  ELSE IF ~IsArray(item) THEN [locations |-> <<>>, item |-> NullRef]
  ELSE [locations |-> JSONParse(item), item |-> item]

\* generateUniqueId(): the time and a random part; the random part is taken
\* to be a value no earlier call drew
GenerateUniqueId(date, drawn) == [time |-> date, random |-> drawn + 1]

\* new Date().toISOString()
ToISOString(date) == [iso |-> date]

\* updatedLocations.slice(0, 50) without its end
Slice_all(array, start, end) == array

\* Array.prototype.slice(start, end) for 0 <= start <= end
Slice(array, start, end) ==
  SubSeq(array, start + 1, IF end < Len(array) THEN end ELSE Len(array))

\* a catch block that throws the error again
SaveCatch_rethrow(error) == error

\* the catch block of saveLocationToLocalStorage: logs, and nothing more
SaveCatch(error) == NoError

QuotaExceededError == [fault |-> "QuotaExceededError"]

\* saveLocationToLocalStorage(location): the item it leaves, whether an
\* entry was written, and what it throws
SaveLocationToLocalStorage(location, item, fault, date, drawn) ==
  LET existing == GetLocationsFromLocalStorage(item, fault)
      newLocation == [id |-> GenerateUniqueId(date, drawn),
                      timestamp |-> ToISOString(date)] @@ location
      updatedLocations == <<newLocation>> \o existing.locations
      limitedLocations == Slice(updatedLocations, 0, 50)
  IN  IF SetItemThrows(fault)
      THEN [item |-> existing.item, written |-> FALSE,
            thrown |-> SaveCatch(QuotaExceededError)]
      ELSE [item |-> JSONStringify(limitedLocations), written |-> TRUE,
            thrown |-> NoError]

\* the location the page hands to saveLocationToLocalStorage
LocalLocation(position, date) ==
  [name |-> "Location " \o ToString(date),
   latitude |-> position.coords.latitude,
   longitude |-> position.coords.longitude,
   accuracy |-> position.coords.accuracy]

\* saveLocationToLocalStorage(location), called on its own
SaveLocation(location) ==
  /\ localSaves < MaxSaves
  /\ LET saved == SaveLocationToLocalStorage(location, localItem, storageFault,
                                             clock, localSaves)
     IN /\ localItem' = saved.item
        /\ localSaves' = IF saved.written THEN localSaves + 1 ELSE localSaves
        /\ seen' = [op |-> "save", thrown |-> saved.thrown]
  /\ UNCHANGED <<storeVars, geoVars, timeVars, pageVars, storageFault, inflight>>

\* localStorage starts or stops failing
StorageFault(fault) ==
  /\ storageFault # fault
  /\ storageFault' = fault
  /\ UNCHANGED <<storeVars, geoVars, timeVars, pageVars, localItem, localSaves,
                 atomVars>>

StorageFaults == {"none", "quota", "denied"}

\* what an earlier visit may have left under STORAGE_KEY
LeftItems == {NullRef, StoredEmpty, StoredGarbage, StoredObject}

InitLocal ==
  /\ StoreInit
  /\ GeoIdle
  /\ PageIdle
  /\ supported = TRUE
  /\ permission = "granted"
  /\ localItem \in LeftItems
  /\ storageFault \in StorageFaults

\* The local history under saves and failures of localStorage.
NextLocal ==
  \/ SaveLocation(LocalLocation(Fix1, 0))
  \/ \E fault \in StorageFaults : StorageFault(fault)

SpecLocal == InitLocal /\ [][NextLocal]_vars

(* -------------------------------- page --------------------------------- *)

\* String.prototype.includes
Includes(string, search) ==
  \E i \in 1..(Len(string) - Len(search) + 1) :
    SubSeq(string, i, i + Len(search) - 1) = search

\* the message the catch block of handleGetCurrentLocation picks for an Error
UserMessage(message) ==
  IF Includes(message, "denied")
  THEN "Location access was denied. Please enable location services."
  ELSE IF Includes(message, "unavailable")
  THEN "Location services are unavailable on this device."
  ELSE IF Includes(message, "timeout")
  THEN "Location request timed out. Please try again."
  ELSE "Unable to get your location."

\* a Get Location button that is never disabled
GetLocationDisabled_never(status) == FALSE

\* disabled={locationStatus === "loading"} of the Get Location button
GetLocationDisabled(status) == status = "loading"

\* currentLocation && locationStatus === "active": the block that holds the
\* Save This Location button is rendered
SaveControlShown(location, status) == location # NullRef /\ status = "active"

\* locations.length > 0: the Clear All button is rendered
ClearControlShown(data) == Len(data) > 0

\* newLocation of handleGetCurrentLocation
NewLocation(position, date) ==
  [latitude |-> position.coords.latitude,
   longitude |-> position.coords.longitude,
   accuracy |-> position.coords.accuracy,
   timestamp |-> date]

\* the state updates after the await, with setCurrentLocation left out
OnFix_statusOnly(position, date) ==
  [currentLocation |-> currentLocation, locationStatus |-> "active"]

\* setCurrentLocation(newLocation); setLocationStatus("active")
OnFix(position, date) ==
  [currentLocation |-> NewLocation(position, date), locationStatus |-> "active"]

\* a catch block that puts the page back to idle
OnFailure_idle(message) ==
  [locationStatus |-> "idle", errorMessage |-> UserMessage(message)]

\* setLocationStatus("error"); setErrorMessage(message) of the catch block
OnFailure(message) ==
  [locationStatus |-> "error", errorMessage |-> UserMessage(message)]

\* handleSaveLocation sends nothing
NoPost == [post |-> FALSE]

\* the InsertLocation that handleSaveLocation hands to mutate, if any
SaveRequest(location, date) ==
  IF location = NullRef
  THEN NoPost
  ELSE [name |-> "Location " \o ToString(date),
        latitude |-> location.latitude,
        longitude |-> location.longitude,
        accuracy |-> location.accuracy]

\* a click on Get Location: handleGetCurrentLocation up to its await
HandleGetCurrentLocation ==
  /\ ~GetLocationDisabled(locationStatus)
  /\ Len(promises) < MaxCalls
  /\ locationStatus' = "loading"
  /\ errorMessage' = ""
  /\ GetCurrentLocationCall
  /\ awaiting' = awaiting \cup {Len(promises) + 1}
  /\ UNCHANGED <<storeVars, timeVars, localVars, atomVars, currentLocation,
                 saveMutation, clearMutation, query, supported, watches,
                 watchIDs, nextWatchId, geoRet, events>>

\* the message of the DOMException that localStorage.setItem throws
QuotaMessage == "The quota has been exceeded."

\* handleGetCurrentLocation from its await on, once the promise has settled
ResumeGetCurrentLocation(c) ==
  /\ c \in awaiting
  /\ promises[c].state # "pending"
  /\ awaiting' = awaiting \ {c}
  /\ IF promises[c].state = "fulfilled"
     THEN LET position == promises[c].value
              fix == OnFix(position, clock)
              saved == SaveLocationToLocalStorage(LocalLocation(position, clock),
                         localItem, storageFault, clock, localSaves)
              failure == OnFailure(QuotaMessage)
          IN /\ currentLocation' = fix.currentLocation
             /\ localItem' = saved.item
             /\ localSaves' = IF saved.written THEN localSaves + 1 ELSE localSaves
             /\ IF saved.thrown = NoError
                THEN /\ locationStatus' = fix.locationStatus
                     /\ UNCHANGED errorMessage
                ELSE /\ locationStatus' = failure.locationStatus
                     /\ errorMessage' = failure.errorMessage
     ELSE LET failure == OnFailure(promises[c].value)
          IN /\ locationStatus' = failure.locationStatus
             /\ errorMessage' = failure.errorMessage
             /\ UNCHANGED <<currentLocation, localItem, localSaves>>
  /\ UNCHANGED <<storeVars, geoVars, timeVars, storageFault, atomVars,
                 saveMutation, clearMutation, query>>

\* a click on Save This Location: handleSaveLocation
HandleSaveLocation ==
  /\ SaveControlShown(currentLocation, locationStatus)
  /\ ~saveMutation.isPending
  /\ LET request == SaveRequest(currentLocation, clock)
     IN saveMutation' = IF request = NoPost
                        THEN saveMutation
                        ELSE [isPending |-> TRUE, variables |-> request]
  /\ UNCHANGED <<storeVars, geoVars, timeVars, localVars, atomVars,
                 locationStatus, currentLocation, errorMessage, awaiting,
                 clearMutation, query>>

\* the server handles the POST of saveLocationMutation
ServeSave ==
  /\ saveMutation.isPending
  /\ res = NoRequest
  /\ PostLocations(saveMutation.variables)

\* apiRequest throws for a response that is not ok
ResponseOk(status) == status >= 200 /\ status < 300

\* queryClient.invalidateQueries: the query fetches again
InvalidateQueries(q) == [q EXCEPT !.isFetching = TRUE]

\* the response of the POST arrives: onSuccess or onError
SettleSave ==
  /\ saveMutation.isPending
  /\ res.route = "POST /api/locations"
  /\ saveMutation' = [isPending |-> FALSE]
  /\ query' = IF ResponseOk(res.status) THEN InvalidateQueries(query) ELSE query
  /\ res' = NoRequest
  /\ UNCHANGED <<now, memVars, dbVars, dbUp, geoVars, timeVars, localVars,
                 atomVars, locationStatus, currentLocation, errorMessage,
                 awaiting, clearMutation>>

\* a click on Clear All that empties the localStorage history as well
HandleClearHistory_local ==
  /\ ClearControlShown(query.data)
  /\ ~clearMutation.isPending
  /\ clearMutation' = [isPending |-> TRUE]
  /\ localItem' = NullRef
  /\ UNCHANGED <<storeVars, geoVars, timeVars, storageFault, localSaves,
                 atomVars, locationStatus, currentLocation, errorMessage,
                 awaiting, saveMutation, query>>

\* a click on Clear All: handleClearHistory
HandleClearHistory ==
  /\ ClearControlShown(query.data)
  /\ ~clearMutation.isPending
  /\ clearMutation' = [isPending |-> TRUE]
  /\ UNCHANGED <<storeVars, geoVars, timeVars, localVars, atomVars,
                 locationStatus, currentLocation, errorMessage, awaiting,
                 saveMutation, query>>

\* the server handles the DELETE of clearLocationsMutation
ServeClear ==
  /\ clearMutation.isPending
  /\ res = NoRequest
  /\ ClearLocationsRoute

\* the response of the DELETE arrives: onSuccess or onError
SettleClear ==
  /\ clearMutation.isPending
  /\ res.route = "DELETE /api/locations"
  /\ clearMutation' = [isPending |-> FALSE]
  /\ query' = IF ResponseOk(res.status) THEN InvalidateQueries(query) ELSE query
  /\ res' = NoRequest
  /\ UNCHANGED <<now, memVars, dbVars, dbUp, geoVars, timeVars, localVars,
                 atomVars, locationStatus, currentLocation, errorMessage,
                 awaiting, saveMutation>>

\* the server handles the GET of the ["/api/locations"] query
ServeFetch ==
  /\ query.isFetching
  /\ res = NoRequest
  /\ GetLocationsRoute

\* the response of the GET arrives: its rows become the data of the query
SettleFetch ==
  /\ query.isFetching
  /\ res.route = "GET /api/locations"
  /\ query' = [data |-> IF ResponseOk(res.status) THEN res.json ELSE query.data,
               isFetching |-> FALSE]
  /\ res' = NoRequest
  /\ UNCHANGED <<now, memVars, dbVars, dbUp, geoVars, timeVars, localVars,
                 atomVars, locationStatus, currentLocation, errorMessage,
                 awaiting, saveMutation, clearMutation>>

InitPage ==
  /\ StoreInit
  /\ GeoIdle
  /\ PageIdle
  /\ localItem \in LeftItems
  /\ storageFault = "none"
  /\ permission = "granted"
  /\ supported \in BOOLEAN

\* The page over the geolocation wrapper and localStorage.
NextPage ==
  \/ HandleGetCurrentLocation
  \/ \E r \in 1..MaxCalls : PlatformSuccess(r, Fix1)
  \/ \E r \in 1..MaxCalls, code \in ErrorCodes : PlatformError(r, code)
  \/ \E c \in 1..MaxCalls : ResumeGetCurrentLocation(c)
  \/ \E fault \in StorageFaults : StorageFault(fault)
  \/ HandleSaveLocation

SpecPage == InitPage /\ [][NextPage]_vars

\* The page over localStorage and the server, where every request for a
\* position gets a fix.
NextSync ==
  \/ HandleGetCurrentLocation
  \/ \E r \in 1..MaxCalls : PlatformSuccess(r, Fix1)
  \/ \E c \in 1..MaxCalls : ResumeGetCurrentLocation(c)
  \/ HandleSaveLocation
  \/ ServeSave
  \/ SettleSave
  \/ HandleClearHistory
  \/ ServeClear
  \/ SettleClear
  \/ ServeFetch
  \/ SettleFetch

SpecSync == Init /\ [][NextSync]_vars

(* ------------------------ interleaved readers -------------------------- *)

\* the mutating calls of IStorage
StoreCalls ==
  {[op |-> "create", insertLocation |-> Home]}
    \cup {[op |-> "delete", id |-> id] : id \in 1..MaxId}
    \cup {[op |-> "clear"]}

\* a clearAllLocations that fetches the rows and deletes them one by one
DbStatements_loop(call, table) ==
  CASE call.op = "create" ->
         <<[sql |-> "insert", id |-> 0]>>
    [] call.op = "delete" ->
         <<[sql |-> "delete where id", id |-> call.id]>>
    [] call.op = "clear" ->
         LET rows == CHOOSE rows \in DbGetAllLocations(table) : TRUE
         IN  [i \in 1..Len(rows) |-> [sql |-> "delete where id", id |-> rows[i].id]]

\* the statements a DatabaseStorage method awaits, in order: each method
\* sends one
DbStatements(call, table) ==
  CASE call.op = "create" ->
         <<[sql |-> "insert", id |-> 0]>>
    [] call.op = "delete" ->
         <<[sql |-> "delete where id", id |-> call.id]>>
    [] call.op = "clear" ->
         <<[sql |-> "delete", id |-> 0]>>

\* the body of a MemStorage method holds no await: it runs as one job
MemStatements(call) == <<[js |-> call.op]>>

\* a route handler calls a mutating method of a store; the method has not
\* run a statement yet
StoreCall(store, call) ==
  /\ inflight = NoCall
  /\ call.op = "create" => (currentLocationId <= MaxId /\ dbSeq <= MaxId)
  /\ inflight' = [store |-> store, call |-> call,
                  statements |-> IF store = "db"
                                 THEN DbStatements(call, dbLocations)
                                 ELSE MemStatements(call),
                  executed |-> 0,
                  before |-> IF store = "db" THEN dbLocations
                             ELSE Range(MapValues(locations)),
                  seq |-> IF store = "db" THEN dbSeq ELSE currentLocationId,
                  date |-> now]
  /\ seen' = NoCall
  /\ UNCHANGED <<storeVars, geoVars, timeVars, pageVars, localVars>>

\* the database executes the next statement of the method under way
DbStatement ==
  /\ inflight # NoCall
  /\ inflight.store = "db"
  /\ inflight.statements # <<>>
  /\ LET statement == Head(inflight.statements)
     IN  IF statement.sql = "insert"
         THEN DbCreateLocation(inflight.call.insertLocation)
         ELSE IF statement.sql = "delete where id"
         THEN DbDeleteLocation(statement.id)
         ELSE DbClearAllLocations
  /\ inflight' = [inflight EXCEPT !.statements = Tail(@), !.executed = @ + 1]
  /\ UNCHANGED <<now, memVars, res, dbUp, geoVars, timeVars, pageVars,
                 localVars, seen>>

\* the body of the MemStorage method under way runs
MemStatement ==
  /\ inflight # NoCall
  /\ inflight.store = "mem"
  /\ inflight.statements # <<>>
  /\ IF inflight.call.op = "create"
     THEN MemCreateLocation(inflight.call.insertLocation)
     ELSE IF inflight.call.op = "delete"
     THEN MemDeleteLocation(inflight.call.id)
     ELSE MemClearAllLocations
  /\ inflight' = [inflight EXCEPT !.statements = Tail(@), !.executed = @ + 1]
  /\ UNCHANGED <<now, dbVars, res, dbUp, geoVars, timeVars, pageVars,
                 localVars, seen>>

\* the promise of the method under way resolves
StoreReturn ==
  /\ inflight # NoCall
  /\ inflight.statements = <<>>
  /\ inflight' = NoCall
  /\ UNCHANGED <<storeVars, geoVars, timeVars, pageVars, localVars, seen>>

\* another handler's getAllLocations runs while the method is under way
StoreRead ==
  /\ inflight # NoCall
  /\ seen' = [op |-> "getAll", during |-> inflight,
              rows |-> IF inflight.store = "db"
                       THEN Range(CHOOSE rows \in DbGetAllLocations(dbLocations) : TRUE)
                       ELSE Range(MemGetAllLocations(locations))]
  /\ UNCHANGED <<storeVars, geoVars, timeVars, pageVars, localVars, inflight>>

\* Mutating calls of either store with readers between their steps.
NextAtomic ==
  \/ \E store \in {"mem", "db"}, call \in StoreCalls : StoreCall(store, call)
  \/ DbStatement
  \/ MemStatement
  \/ StoreReturn
  \/ StoreRead

SpecAtomic == Init /\ [][NextAtomic]_vars

(* ------------------------------- claims -------------------------------- *)

\* C1: after any sequence of createLocation, deleteLocation and
\* clearAllLocations calls on a MemStorage, getAllLocations returns exactly
\* the records that were created and not yet deleted or cleared, each once,
\* and no two of them share an id.
C1_ListIsLiveRecords ==
  LET all == MemGetAllLocations(locations)
  IN  /\ Range(all) = memLive
      /\ Len(all) = Cardinality(memLive)
      /\ \A i, j \in 1..Len(all) : i # j => all[i].id # all[j].id

\* three records were created, one of them was removed, the list holds two
C1_Witness ==
  /\ memRet.op = "getAll"
  /\ Len(memRet.val) = 2
  /\ memCreates = 3

\* C2: the k-th createLocation of a MemStorage returns id = k; the counter
\* starts at 1, goes up by one per create and is not changed by
\* deleteLocation or clearAllLocations, so no id is issued twice.
C2_IdIsCreateCount ==
  /\ currentLocationId = memCreates + 1
  /\ memIssued = 1..memCreates
  /\ memRet.op = "create" => memRet.val.id = memCreates

\* the third create returns id 3 although earlier records are gone
C2_Witness ==
  /\ memRet.op = "create"
  /\ memRet.val.id = 3
  /\ memCreates = 3
  /\ Len(locations) = 1

\* C3: deleteLocation(id) of an id that is in the store returns true, a
\* getLocation(id) right after it yields undefined, and the other records
\* are as before; in both store variants.
C3_DeleteExisting ==
  [][\A id \in IdArgs : DeleteLocation(id) =>
       /\ MapHas(locations, id) =>
            /\ memRet'.val = TRUE
            /\ MemGetLocation(locations', id) = Undefined
            /\ \A k \in IdArgs \ {id} :
                 MemGetLocation(locations', k) = MemGetLocation(locations, k)
       /\ (\E r \in dbLocations : r.id = id) =>
            /\ dbRet'.val = TRUE
            /\ DbGetLocation(dbLocations', id) = Undefined
            /\ \A k \in IdArgs \ {id} :
                 DbGetLocation(dbLocations', k) = DbGetLocation(dbLocations, k)
    ]_vars

\* a delete returned true in both stores and left another record behind
C3_Witness ==
  /\ memRet.op = "delete" /\ memRet.val = TRUE
  /\ dbRet.op = "delete" /\ dbRet.val = TRUE
  /\ MemGetLocation(locations, memRet.arg) = Undefined
  /\ Len(locations) >= 1
  /\ dbLocations # {}

\* C4: deleteLocation of an id that createLocation never issued returns
\* false and leaves the collection unchanged; in both store variants.
C4_DeleteNeverIssued ==
  [][\A id \in IdArgs : DeleteLocation(id) =>
       /\ id \notin memIssued => memRet'.val = FALSE /\ locations' = locations
       /\ id \notin dbIssued => dbRet'.val = FALSE /\ dbLocations' = dbLocations
    ]_vars

\* a delete of a never-issued id returned false on non-empty stores
C4_Witness ==
  /\ memRet.op = "delete" /\ memRet.val = FALSE /\ memRet.arg \notin memIssued
  /\ dbRet.op = "delete" /\ dbRet.val = FALSE /\ dbRet.arg \notin dbIssued
  /\ locations # <<>>
  /\ dbLocations # {}

\* C5: clearAllLocations returns true and a getAllLocations right after it
\* returns the empty sequence, whatever the store held; in both variants.
C5_ClearEmpties ==
  /\ memRet.op = "clear" =>
       memRet.val = TRUE /\ MemGetAllLocations(locations) = <<>>
  /\ dbRet.op = "clear" =>
       dbRet.val = TRUE /\ DbGetAllLocations(dbLocations) = {<<>>}

\* a clear of stores that held two records
C5_Witness ==
  /\ memRet.op = "clear" /\ memRet.held = 2
  /\ dbRet.op = "clear" /\ dbRet.held = 2

\* C6: a record created without accuracy can be retrieved and its accuracy
\* is null; a record created with accuracy 0 keeps accuracy 0, which is not
\* null; in both store variants.
C6_AbsentAccuracyIsNull ==
  /\ memRet.op = "create" =>
       LET stored == MemGetLocation(locations, memRet.val.id)
       IN  /\ stored = memRet.val
           /\ "accuracy" \notin DOMAIN memRet.arg => stored.accuracy = Null
           /\ ("accuracy" \in DOMAIN memRet.arg /\ memRet.arg.accuracy = 0) =>
                stored.accuracy = 0 /\ stored.accuracy # Null
  /\ dbRet.op = "create" =>
       LET stored == DbGetLocation(dbLocations, dbRet.val.id)
       IN  /\ stored = dbRet.val
           /\ "accuracy" \notin DOMAIN dbRet.arg => stored.accuracy = Null
           /\ ("accuracy" \in DOMAIN dbRet.arg /\ dbRet.arg.accuracy = 0) =>
                stored.accuracy = 0 /\ stored.accuracy # Null

\* both stores hold a record created without accuracy and one created with 0
C6_Witness ==
  /\ memRet.op = "create" /\ memRet.arg = Precise /\ memRet.val.accuracy = 0
  /\ \E i \in 1..Len(locations) : locations[i].value.accuracy = Null
  /\ \E r \in dbLocations : r.accuracy = Null
  /\ \E r \in dbLocations : r.accuracy = 0

\* the ids, and the timestamps, of a list of records in list order
IdsOf(list) == [i \in 1..Len(list) |-> list[i].id]
TimestampsOf(list) == [i \in 1..Len(list) |-> list[i].timestamp]

\* C7: MemStorage.getAllLocations returns the records newest-created-first:
\* of any two records the one created later (the larger id) comes first,
\* also when both were stamped with the same timestamp.
C7_NewestCreatedFirst ==
  memRet.op = "getAll" =>
    \A i, j \in 1..Len(memRet.val) : i < j => memRet.val[i].id > memRet.val[j].id

\* C8, as stated: DatabaseStorage.getAllLocations ascends by timestamp and
\* is, record by record, the reverse of MemStorage.getAllLocations over the
\* same history.
C8_DurableIsReverseOfVolatile ==
  (memRet.op = "getAll" /\ dbRet.op = "getAll") =>
    /\ \A i, j \in 1..Len(dbRet.val) :
         i < j => dbRet.val[i].timestamp <= dbRet.val[j].timestamp
    /\ IdsOf(dbRet.val) = Reverse(IdsOf(memRet.val))

\* C8, amended: DatabaseStorage.getAllLocations ascends by timestamp; over
\* the same history it lists the same records as MemStorage.getAllLocations
\* and its sequence of timestamps is the reverse of the Volatile one.
C8_DurableAscending ==
  (memRet.op = "getAll" /\ dbRet.op = "getAll") =>
    /\ \A i, j \in 1..Len(dbRet.val) :
         i < j => dbRet.val[i].timestamp <= dbRet.val[j].timestamp
    /\ Range(IdsOf(dbRet.val)) = Range(IdsOf(memRet.val))
    /\ TimestampsOf(dbRet.val) = Reverse(TimestampsOf(memRet.val))

\* both stores list three records that were created at two instants
C8_Witness ==
  /\ memRet.op = "getAll" /\ dbRet.op = "getAll"
  /\ Len(dbRet.val) = 3
  /\ dbRet.val[1].timestamp < dbRet.val[3].timestamp
  /\ IdsOf(dbRet.val) = Reverse(IdsOf(memRet.val))

\* C9: for the same create-request both stores return, from the create call
\* itself, a record with the fields id, name, latitude, longitude, accuracy,
\* timestamp, with the caller's name, latitude and longitude, and with the
\* caller's accuracy or null when none was supplied.
C9_SameRecordBothStores ==
  (memRet.op = "create" /\ dbRet.op = "create" /\ memRet.arg = dbRet.arg) =>
    LET req == memRet.arg
        accuracy == IF "accuracy" \in DOMAIN req THEN req.accuracy ELSE Null
    IN  /\ DOMAIN memRet.val = Columns
        /\ DOMAIN dbRet.val = Columns
        /\ \A k \in {"name", "latitude", "longitude"} :
             memRet.val[k] = req[k] /\ dbRet.val[k] = req[k]
        /\ memRet.val.accuracy = accuracy
        /\ dbRet.val.accuracy = accuracy

\* C10: an id or timestamp supplied in a create-request is never the id or
\* timestamp of the stored record: through POST /api/locations and through
\* createLocation of either store the request is rejected or the supplied
\* values are discarded.
C10_SuppliedNeverStored ==
  LET Discarded(req, stored) ==
        /\ "id" \in DOMAIN req => stored.id # req.id
        /\ "timestamp" \in DOMAIN req => stored.timestamp # req.timestamp
  IN  /\ memRet.op = "create" => Discarded(memRet.arg, memRet.val)
      /\ (dbRet.op = "create" /\ dbRet.val # Fault) =>
           Discarded(dbRet.arg, dbRet.val)
      /\ (res.route = "POST /api/locations" /\ res.status = 201) =>
           Discarded(res.req, res.json)

\* C11: a record is never mutated: as long as it is in the store, every
\* getLocation and getAllLocations result for its id is the record that
\* createLocation returned (name, latitude, longitude, accuracy, timestamp
\* included), and no step changes a record that stays in the store.
C11_RecordsImmutable ==
  /\ (memRet.op = "get" /\ memRet.val # Undefined) =>
       memRet.val \in memLive /\ memRet.val.id = memRet.arg
  /\ memRet.op = "getAll" => Range(memRet.val) \subseteq memLive
  /\ (dbRet.op = "get" /\ dbRet.val # Undefined) =>
       dbRet.val \in dbLive /\ dbRet.val.id = dbRet.arg
  /\ dbRet.op = "getAll" => Range(dbRet.val) \subseteq dbLive
  /\ \A l1, l2 \in memLive : l1.id = l2.id => l1 = l2
  /\ \A r1, r2 \in dbLive : r1.id = r2.id => r1 = r2

\* a record created at the first instant is read back at a later instant,
\* after another record was created and one was deleted
C11_Witness ==
  /\ memRet.op = "get" /\ memRet.val # Undefined
  /\ dbRet.op = "get" /\ dbRet.val # Undefined
  /\ memRet.val.timestamp < now
  /\ memCreates = 3
  /\ Len(locations) = 2

\* a body that has the shape of a LocationCreateRequest: a name and
\* numbers for latitude and longitude
WellFormedBody(body) ==
  /\ {"name", "latitude", "longitude"} \subseteq DOMAIN body
  /\ body.latitude # Null
  /\ body.longitude # Null

\* C12: POST /api/locations with a malformed body is answered 400 with the
\* fields at fault, without a call of storage.createLocation and with the
\* store as before; a well-formed body is answered 201 with the created
\* record, which is then in the store (500 when the store faults is C14).
C12_PostValidation ==
  [][\A body \in Bodies : PostLocations(body) =>
       IF ~WellFormedBody(body)
         THEN /\ res'.status = 400
              /\ res'.json.errors # {}
              /\ res'.json.errors =
                   {f \in {"name", "latitude", "longitude"} : f \notin DOMAIN body}
                     \cup {f \in {"latitude", "longitude"} \cap DOMAIN body :
                             body[f] = Null}
              /\ res'.calls = 0
              /\ dbLocations' = dbLocations
              /\ dbRet' = dbRet
         ELSE dbUp =>
                /\ res'.status = 201
                /\ res'.json \in dbLocations' \ dbLocations
                /\ res'.json.name = body.name
                /\ dbRet'.op = "create" /\ dbRet'.val = res'.json
    ]_vars

\* a body without a name was refused while the store held a record
C12_Witness ==
  /\ res.route = "POST /api/locations"
  /\ res.status = 400
  /\ res.json.errors = {"name"}
  /\ res.calls = 0
  /\ dbLocations # {}

\* a path segment that is an integer: an optional sign and digits only
IntegerSegment(segment) ==
  LET rest == IF segment # <<>> /\ segment[1] \in {"-", "+"}
                THEN Tail(segment) ELSE segment
  IN  rest # <<>> /\ \A i \in 1..Len(rest) : rest[i] \in Digits

\* the integer that an integer segment names
SegmentValue(segment) ==
  IF segment[1] = "-" THEN 0 - DecimalValue(Tail(segment))
  ELSE IF segment[1] = "+" THEN DecimalValue(Tail(segment))
  ELSE DecimalValue(segment)

\* C13: DELETE /api/locations/:id answers 400 whenever :id is not an
\* integer, without calling the store; 404 when it is an integer that names
\* no record; 200 when the record existed and was removed (the store
\* answering).
C13_DeleteStatus ==
  [][\A segment \in Segments : DeleteLocationRoute(segment) =>
       IF ~IntegerSegment(segment)
         THEN /\ res'.status = 400
              /\ res'.calls = 0
              /\ dbLocations' = dbLocations
         ELSE dbUp =>
                IF \E r \in dbLocations : r.id = SegmentValue(segment)
                  THEN /\ res'.status = 200
                       /\ \A r \in dbLocations' : r.id # SegmentValue(segment)
                  ELSE res'.status = 404
    ]_vars

\* the fixed message of each route's catch block
GenericMessage(route) ==
  CASE route = "GET /api/locations" -> "Failed to fetch locations"
    [] route = "POST /api/locations" -> "Failed to save location"
    [] route = "DELETE /api/locations/:id" -> "Failed to delete location"
    [] route = "DELETE /api/locations" -> "Failed to clear locations"

\* C14: on every route a fault thrown by the store is answered 500 with
\* the route's fixed message and nothing else in the body; a response is
\* 500 only when the store threw, so validation failures and not-found
\* results are never 500.
C14_FaultsAre500 ==
  res.route # "none" =>
    /\ res.threw # NoError => res.status = 500
    /\ res.status = 500 =>
         /\ res.threw \in {Fault, NotNullFault, ConnectionFault}
         /\ res.json = [message |-> GenericMessage(res.route)]
    /\ (res.route = "POST /api/locations" /\ ~WellFormedBody(res.req)) =>
         res.status = 400
    /\ (res.route = "DELETE /api/locations/:id" /\ res.threw = NoError) =>
         res.status \in {200, 400, 404}

\* a save failed on a store fault while the database was out
C14_Witness ==
  /\ res.route = "POST /api/locations"
  /\ res.status = 500
  /\ res.threw = ConnectionFault
  /\ dbLocations # {}

\* C15: each getCurrentLocation call made where the capability exists has
\* exactly one platform request, and its promise is decided by the first
\* callback of that request alone: pending before it, fulfilled with its fix
\* or rejected for its error code after it, whatever callbacks follow.
C15_FirstCallbackDecides ==
  supported =>
    \A c \in DOMAIN promises :
      LET reqs == {r \in DOMAIN platformReqs : platformReqs[r].call = c}
      IN /\ Cardinality(reqs) = 1
         /\ \A r \in reqs :
              LET log == platformReqs[r].log
              IN IF log = <<>>
                 THEN promises[c].state = "pending"
                 ELSE IF log[1].kind = "position"
                 THEN /\ promises[c].state = "fulfilled"
                      /\ promises[c].value = log[1].position
                 ELSE /\ promises[c].state = "rejected"
                      /\ promises[c].cause = log[1].code

\* a request whose success callback was followed by an error callback, or
\* the other way round
C15_Witness ==
  \E r \in DOMAIN platformReqs :
    /\ Len(platformReqs[r].log) >= 2
    /\ platformReqs[r].log[1].kind # platformReqs[r].log[2].kind

\* C16: two rejections of getCurrentLocation that come from different
\* platform error codes (permission denied, position unavailable, timeout,
\* or a code that is none of them) carry different errors.
C16_DistinctErrors ==
  \A a, b \in DOMAIN promises :
    ( /\ promises[a].state = "rejected"
      /\ promises[b].state = "rejected"
      /\ promises[a].cause \in ErrorCodes
      /\ promises[b].cause \in ErrorCodes
      /\ promises[a].cause # promises[b].cause )
    => promises[a].value # promises[b].value

\* one call rejected for permission denied and another for a timeout
C16_Witness ==
  \E a, b \in DOMAIN promises :
    /\ promises[a].state = "rejected" /\ promises[a].cause = PERMISSION_DENIED
    /\ promises[b].state = "rejected" /\ promises[b].cause = TIMEOUT

\* C17: where navigator.geolocation is missing, every getCurrentLocation
\* promise is already rejected when the call returns and watchPosition has
\* thrown, both with the unsupported error, which is none of the errors of
\* the platform codes, and the platform has received no request and no watch.
C17_UnsupportedFailsAtOnce ==
  ~supported =>
    /\ \A c \in DOMAIN promises :
         /\ promises[c].state = "rejected"
         /\ promises[c].value = UnsupportedMessage
    /\ geoRet.op = "watchPosition" => geoRet.thrown = UnsupportedMessage
    /\ platformReqs = <<>>
    /\ watches = <<>>
    /\ watchIDs = {}
    /\ \A code \in ErrorCodes : ErrorMessage(code) # UnsupportedMessage

\* both operations were called where the capability is missing
C17_Witness ==
  /\ ~supported
  /\ Len(promises) >= 1
  /\ geoRet.op = "watchPosition"

\* C18: no callback of a watch is invoked after clearWatch returned for
\* its handle.
C18_NoCallbackAfterClear ==
  \A w \in DOMAIN watches : watches[w].late = 0

\* C19: a clearWatch call raises no fault and leaves every watch with
\* another handle as it was; with a handle that is not active (cleared
\* before, or never returned) it changes nothing at all.
C19_ClearIsNoOp ==
  [][\A watchId \in Handles :
       ClearWatch(watchId) =>
         /\ geoRet'.thrown = "none"
         /\ \A w \in DOMAIN watches :
              watches[w].id # watchId => watches'[w] = watches[w]
         /\ watchId \notin watchIDs =>
              watches' = watches /\ watchIDs' = watchIDs]_vars

IsPosition(event) == event.kind = "position"

IsError(event) == event.kind = "error"

\* the fixes among the events, in order
PositionsOf(evs) ==
  LET sel == SelectSeq(evs, IsPosition)
  IN [i \in 1..Len(sel) |-> sel[i].position]

\* the error codes among the events, in order
CodesOf(evs) ==
  LET sel == SelectSeq(evs, IsError)
  IN [i \in 1..Len(sel) |-> sel[i].code]

\* C20: for a watch that is not cancelled, onSuccess has run once for each
\* fix the platform delivered, in order, onError (when supplied) once for
\* each error it delivered, and the watch is still registered with the
\* platform, errors or not.
C20_EachEventForwarded ==
  \A w \in DOMAIN watches :
    ~watches[w].cleared =>
      /\ watches[w].successes = PositionsOf(watches[w].sent)
      /\ watches[w].errors =
           IF watches[w].onError THEN CodesOf(watches[w].sent) ELSE <<>>
      /\ watches[w].id \in watchIDs

\* a watch with onError that got an error and then a fix, both forwarded
C20_Witness ==
  \E w \in DOMAIN watches :
    /\ ~watches[w].cleared
    /\ watches[w].onError
    /\ watches[w].sent = <<ErrorEvent(POSITION_UNAVAILABLE), PositionEvent(Fix2)>>
    /\ watches[w].successes = <<Fix2>>
    /\ watches[w].errors = <<POSITION_UNAVAILABLE>>

\* C21: against a source that never reports a fix, a getCurrentLocation
\* promise is never fulfilled, is not pending any more once more than the
\* configured 10000 ms have passed since the call, and when it is rejected
\* it is for a timeout, 10000 ms after the call.
C21_TimeoutAfter10000 ==
  \A c \in DOMAIN promises :
    /\ promises[c].state # "fulfilled"
    /\ promises[c].state = "pending" =>
         clock - calledAt[c] <= GEOLOCATION_OPTIONS.timeout
    /\ promises[c].state = "rejected" =>
         /\ promises[c].cause = TIMEOUT
         /\ settledAt[c] - calledAt[c] = GEOLOCATION_OPTIONS.timeout

\* C22: locationStatus is idle until the first request; it becomes loading
\* only in a step that starts a handleGetCurrentLocation (a new promise is
\* awaited); it leaves loading only to active, with the fix of a fulfilled
\* promise as currentLocation, or to error, for a rejected promise; and a
\* position request is issued only in a step that enters loading, never in
\* the step that reports an error.
C22_StatusMachine ==
  [][ /\ promises = <<>> => locationStatus = "idle"
      /\ (locationStatus' = "loading" /\ locationStatus # "loading") =>
           /\ Len(promises') = Len(promises) + 1
           /\ awaiting' = awaiting \cup {Len(promises')}
      /\ (locationStatus = "loading" /\ locationStatus' # "loading") =>
           /\ locationStatus' \in {"active", "error"}
           /\ \E c \in awaiting :
                /\ c \notin awaiting'
                /\ locationStatus' = "active" =>
                     /\ promises[c].state = "fulfilled"
                     /\ currentLocation' = NewLocation(promises[c].value, clock)
                /\ locationStatus' = "error" => promises[c].state = "rejected"
      /\ Len(promises') # Len(promises) =>
           /\ locationStatus # "loading"
           /\ locationStatus' = "loading"
      /\ Len(platformReqs') # Len(platformReqs) =>
           locationStatus' = "loading" /\ locationStatus # "loading"
    ]_vars

\* a request made by hand after an error is under way
C22_Witness ==
  /\ locationStatus = "loading"
  /\ Len(promises) >= 2
  /\ promises[1].state = "rejected"

\* permission denied, position unavailable, timeout and capability
\* unsupported, by the code behind the rejection (0: no platform code)
FourCauses == {0, PERMISSION_DENIED, POSITION_UNAVAILABLE, TIMEOUT}

\* the error getCurrentLocation rejects with for a cause
CauseMessage(cause) ==
  IF cause = 0 THEN UnsupportedMessage ELSE ErrorMessage(cause)

\* C23: when handleGetCurrentLocation reports a failure of one of the four
\* causes, the message it sets is not the message it sets for any of the
\* other three causes.
C23_DistinctUserMessages ==
  [][ \A c \in awaiting :
        ( /\ c \notin awaiting'
          /\ promises[c].state = "rejected"
          /\ promises[c].cause \in FourCauses )
        => \A other \in FourCauses \ {promises[c].cause} :
             errorMessage' # UserMessage(CauseMessage(other))
    ]_vars

\* the records a store holds once the call has taken effect
RowsAfter(under) ==
  IF under.call.op = "create"
  THEN under.before \cup
         {IF under.store = "db"
          THEN DbNewRow(DbValues(under.call.insertLocation), under.seq, under.date)
          ELSE MemNewLocation(under.call.insertLocation, under.seq, under.date)}
  ELSE IF under.call.op = "delete"
  THEN {r \in under.before : r.id # under.call.id}
  ELSE {}

\* C24: a getAllLocations that runs while a createLocation, deleteLocation
\* or clearAllLocations of the same store is under way returns either the
\* records held before the call or the records held once it has taken
\* effect; and a DatabaseStorage method sends exactly one statement.
C24_MutationsAtomic ==
  /\ seen.op = "getAll" =>
       \/ seen.rows = seen.during.before
       \/ seen.rows = RowsAfter(seen.during)
  /\ (inflight # NoCall /\ inflight.store = "db") =>
       inflight.executed + Len(inflight.statements) = 1

\* a reader ran after the one statement of a clearAllLocations over two rows
C24_Witness ==
  /\ seen.op = "getAll"
  /\ seen.during.store = "db"
  /\ seen.during.call.op = "clear"
  /\ seen.during.executed = 1
  /\ Cardinality(seen.during.before) = 2
  /\ seen.rows = {}

\* C25: the routes never use another store than the one DatabaseStorage:
\* the MemStorage stays as constructed, a 201 response to POST carries a
\* record that is in the table, and a 200 response to GET /api/locations
\* lists, each once, exactly the records that requests have created and no
\* request has deleted or cleared since.
C25_OneStoreInstance ==
  /\ locations = <<>>
  /\ currentLocationId = 1
  /\ (res.route = "POST /api/locations" /\ res.status = 201) =>
       /\ res.json \in dbLocations
       /\ res.json \in dbLive
  /\ (res.route = "GET /api/locations" /\ res.status = 200) =>
       /\ Range(res.json) = dbLive
       /\ Len(res.json) = Cardinality(dbLive)

\* of three records created by earlier requests, two are listed by a later
\* request after the third was removed
C25_Witness ==
  /\ res.route = "GET /api/locations"
  /\ res.status = 200
  /\ Len(res.json) = 2
  /\ Cardinality(dbIssued) = 3

\* C26: saveLocationToLocalStorage throws nothing, whatever localStorage
\* holds and however it fails; and when handleGetCurrentLocation resumes
\* with a fix, it ends with status active and that fix as currentLocation.
C26_LocalFailureHarmless ==
  [][ /\ SaveLocationToLocalStorage(LocalLocation(Fix1, clock), localItem,
                                    storageFault, clock, localSaves).thrown = NoError
      /\ \A c \in awaiting :
           (c \notin awaiting' /\ promises[c].state = "fulfilled") =>
             /\ locationStatus' = "active"
             /\ currentLocation' = NewLocation(promises[c].value, clock)
             /\ errorMessage' = ""
    ]_vars

\* a fix was obtained and shown while nothing could be written
C26_Witness ==
  /\ locationStatus = "active"
  /\ currentLocation = NewLocation(Fix1, clock)
  /\ localSaves = 0
  /\ storageFault # "none"

\* the server side and the page's view of it
serverVars == <<storeVars, saveMutation, clearMutation, query>>

\* C27: a step of handleGetCurrentLocation (one that starts or ends an
\* await, or writes the localStorage history) leaves the server store, the
\* exchange with the server, both mutations and the query unchanged; a step
\* that changes the server store, the exchange, a mutation or the query
\* leaves the localStorage history unchanged; and the data of the query
\* changes only to the rows of a 200 response to GET /api/locations.
C27_LocalAndServerIndependent ==
  [][ /\ (awaiting' # awaiting \/ localItem' # localItem \/ localSaves' # localSaves)
           => UNCHANGED serverVars
      /\ (dbLocations' # dbLocations \/ res' # res \/ query' # query
           \/ saveMutation' # saveMutation \/ clearMutation' # clearMutation)
           => UNCHANGED <<localItem, localSaves>>
      /\ query'.data # query.data =>
           /\ res.route = "GET /api/locations"
           /\ res.status = 200
           /\ query'.data = res.json
    ]_vars

\* after a save and a Clear All the server holds, and the page lists, no row
\* while the localStorage history still holds its two entries
C27_Witness ==
  /\ localItem # NullRef
  /\ Len(localItem.items) = 2
  /\ dbLocations = {}
  /\ dbSeq > 1
  /\ query.data = <<>>
  /\ ~query.isFetching

\* C28: once an entry has been written, the stored local history is an
\* array of the last 50 entries written, or of all of them when fewer were
\* written, the latest at index 0 and each entry written just before the
\* entry in front of it.
C28_LocalHistoryNewestFirst ==
  localSaves > 0 =>
    /\ IsArray(localItem)
    /\ Len(JSONParse(localItem)) = (IF localSaves < 50 THEN localSaves ELSE 50)
    /\ \A i \in 1..Len(JSONParse(localItem)) :
         JSONParse(localItem)[i].id.random = localSaves - i + 1

\* more than 50 entries were written and 50 are held
C28_Witness ==
  /\ localSaves > 50
  /\ IsArray(localItem)
  /\ Len(JSONParse(localItem)) = 50

\* C29: at most one handleGetCurrentLocation is under way: at most one
\* promise is awaited, it is the latest one, no other promise is pending,
\* and one is awaited exactly while locationStatus is loading.
C29_OneOutstandingRequest ==
  /\ Cardinality(awaiting) <= 1
  /\ awaiting \subseteq {Len(promises)}
  /\ \A c \in DOMAIN promises : promises[c].state = "pending" => c \in awaiting
  /\ awaiting # {} <=> locationStatus = "loading"

\* a second request is under way after the first has settled
C29_Witness ==
  /\ awaiting = {2}
  /\ promises[1].state # "pending"
  /\ promises[2].state = "pending"

\* C30: locationStatus active implies a currentLocation; errorMessage is
\* non-empty exactly when locationStatus is error; a save that is under way
\* carries a name, a latitude, a longitude and an accuracy; and
\* handleSaveLocation without a currentLocation sends nothing.
C30_PageStateConsistent ==
  /\ locationStatus = "active" => currentLocation # NullRef
  /\ errorMessage # "" <=> locationStatus = "error"
  /\ saveMutation.isPending =>
       /\ currentLocation # NullRef
       /\ DOMAIN saveMutation.variables = {"name", "latitude", "longitude", "accuracy"}
       /\ saveMutation.variables.latitude # Null
       /\ saveMutation.variables.longitude # Null
  /\ SaveRequest(NullRef, clock) = NoPost

\* a save of the shown position is under way
C30_Witness ==
  /\ saveMutation.isPending
  /\ locationStatus = "active"
  /\ saveMutation.variables.latitude = currentLocation.latitude

====
